---- MODULE Spec2Model ----
(***************************************************************************)
(* Model of src/main.py, PolymarketInsiderBot: the polling cycle           *)
(* (check_insider_activity), the market pagination (get_active_markets),   *)
(* the wallet history cache (get_wallet_history), the grouping and size    *)
(* gate (analyze_trades) and the scoring (calculate_insider_score).        *)
(*                                                                         *)
(* Time is counted in whole hours since a midnight, so that hour-of-day is *)
(* t % 24 and a timedelta's .days is (a - b) \div 24.  A price is held in  *)
(* hundredths (50 is 0.5); the sizes used make size * price exact, as the  *)
(* float product is for these values.                                      *)
(***************************************************************************)
EXTENDS Integers, Sequences, FiniteSets, TLC

\* ------------------------------------------------------------ constants

MIN_BET_SIZE == 1000
NEW_WALLET_DAYS == 90
\* the literal of analyze_trades' comparison with score['probability']
ALERT_PROBABILITY == 20
\* the minimum probability send_test_alert announces ("Probabilite min: 20%")
ANNOUNCED_MIN_PROBABILITY == 20
\* get_active_markets: page size asked for, and the safety limit
limit == 100
SAFETY_LIMIT == 1000

\* ------------------------------------------------------------ bounds

\* hours the clock may advance past StartHour
MaxTick == 2
\* longest trade page the feed returns for one market
MaxTrades == 2
\* longest market list a cycle scans
MaxMarkets == 2
\* markets a page may hold beyond the page size asked for
MaxOverfill == 1
\* hours a cached wallet profile counts as fresh (the spec's freshness window)
FreshnessWindow == 1
\* longest wallet history the upstream returns
MaxHistory == 200

\* 06:00 of a day long after the epoch: hour 6 is a suspicious hour,
\* hour 7 is not
StartHour == 24 * 1000 + 6

\* ------------------------------------------------------------ values

Wallets == {"w1", "w2"}

\* a 'timestamp' field: an ISO string without offset (naive), one ending in
\* Z (aware), a string that is no ISO date (text), or no field at all
Naive(t) == [kind |-> "naive", t |-> t]
Aware(t) == [kind |-> "aware", t |-> t]
TextTs == [kind |-> "text", t |-> 0]
AbsentTs == [kind |-> "absent", t |-> 0]
\* Python's None, as first_trade_date
NoneTs == [kind |-> "none", t |-> 0]

\* a 'size' or 'price' field: numeric, or a string float() rejects
Num(v) == [ok |-> TRUE, v |-> v]
NotNum == [ok |-> FALSE, v |-> 0]

Trade(maker, size, price, ts) ==
    [maker |-> maker, size |-> size, price |-> price, timestamp |-> ts]

\* one record of a wallet's history
Hist(market, ts) == [market |-> market, timestamp |-> ts]

\* ------------------------------------------------------------ helpers

\* datetime.fromisoformat(s.replace('Z', '+00:00')): ValueError on '' and on
\* a string that is no ISO date
ParseRaises(ts) == ts.kind \in {"text", "absent", "none"}

\* comparing or subtracting the parsed value with datetime.now(), which is
\* naive: TypeError for an offset-aware value
NaiveOpRaises(ts) == ts.kind = "aware"

\* order of the timestamp strings under Python's min(): same-format ISO
\* strings order by time, "...00" before "...00Z", letters after digits
TsKey(ts) == IF ts.kind = "text" THEN 2 * (StartHour + 1000)
             ELSE 2 * ts.t + (IF ts.kind = "aware" THEN 1 ELSE 0)

\* min(t['timestamp'] for t in trades), for a non-empty list whose records
\* all have the field (strings of equal key are equal)
MinTimestamp(trades) ==
    LET first == CHOOSE i \in 1..Len(trades) :
                     \A j \in 1..Len(trades) :
                         TsKey(trades[i].timestamp) <= TsKey(trades[j].timestamp)
    IN  trades[first].timestamp

\* t['timestamp'] raises KeyError for a record without the field
HasKeyError(trades) ==
    \E i \in 1..Len(trades) : trades[i].timestamp.kind = "absent"

\* int((score / max_score) * 100) in double arithmetic, max_score = 100:
\* 29, 57 and 58 come out one lower (0.29 * 100 is 28.999999999999996)
IntPct(score, max_score) ==
    IF max_score = 100 /\ score \in {29, 57, 58} THEN score - 1
    ELSE (score * 100) \div max_score

\* ------------------------------------------------------------ wallet history

\* self.wallet_history: per wallet, whether the key is in the dict and the
\* list stored under it
NoEntry == [present |-> FALSE, trades |-> <<>>]
EmptyCache == [w \in Wallets |-> NoEntry]

ZeroProfile == [trades |-> <<>>, first_trade_date |-> NoneTs]

\* a response of GET /trades?maker=wallet: the request raises (timeout,
\* connection error), a status other than 200, a 200 whose body is no JSON,
\* or a 200 with a list of trades
RespError == [kind |-> "error", trades |-> <<>>]
RespStatus == [kind |-> "status", trades |-> <<>>]
RespBadJson == [kind |-> "badjson", trades |-> <<>>]
RespOk(trades) == [kind |-> "ok", trades |-> trades]

Profile(trades) ==
    [trades |-> trades,
     first_trade_date |-> IF trades = <<>> THEN NoneTs ELSE MinTimestamp(trades)]

WalletResult(raised, profile, cache, net) ==
    [raised |-> raised, profile |-> profile, wallet_history |-> cache, net |-> net]

\* the branch of get_wallet_history taken when the wallet is in the dict: no
\* request; the min() is outside any try
CachedBranch(cache, wallet) ==
    LET trades == cache[wallet].trades
    IN  IF trades # <<>> /\ HasKeyError(trades)
        THEN WalletResult(TRUE, ZeroProfile, cache, FALSE)
        ELSE WalletResult(FALSE, Profile(trades), cache, FALSE)

\* the fetch without its try/except: a failed request raises
FetchBranchUncaught(cache, wallet, resp) ==
    IF resp.kind = "ok"
    THEN WalletResult(FALSE, Profile(resp.trades),
                      [cache EXCEPT ![wallet] = [present |-> TRUE, trades |-> resp.trades]],
                      TRUE)
    ELSE WalletResult(resp.kind \in {"error", "badjson"}, ZeroProfile, cache, TRUE)

\* the branch taken otherwise: one request; on 200 the list is stored before
\* the profile is built, and every exception ends in the zero profile
FetchBranch(cache, wallet, resp) ==
    IF resp.kind = "ok"
    THEN LET stored == [cache EXCEPT ![wallet] =
                            [present |-> TRUE, trades |-> resp.trades]]
         IN  IF resp.trades # <<>> /\ HasKeyError(resp.trades)
             THEN WalletResult(FALSE, ZeroProfile, stored, TRUE)
             ELSE WalletResult(FALSE, Profile(resp.trades), stored, TRUE)
    ELSE WalletResult(FALSE, ZeroProfile, cache, TRUE)

get_wallet_history(cache, wallet, resp) ==
    IF cache[wallet].present
    THEN CachedBranch(cache, wallet)
    ELSE FetchBranch(cache, wallet, resp)

\* ------------------------------------------------------------ scoring

ScoreResult(raised, score, max_score, reasons) ==
    [raised |-> raised,
     probability |-> IF raised THEN 0 ELSE IntPct(score, max_score),
     score |-> score, max_score |-> max_score, reasons |-> reasons]

\* Factor 1: new wallet (40 points); raises when first_trade_date does not
\* parse or is offset-aware
NoveltyRaises(wallet_info) ==
    /\ Len(wallet_info.trades) > 5
    /\ wallet_info.first_trade_date.kind # "none"
    /\ \/ ParseRaises(wallet_info.first_trade_date)
       \/ NaiveOpRaises(wallet_info.first_trade_date)

DaysOld(now, ts) == (now - ts.t) \div 24

NoveltyFactor(wallet_info, now) ==
    LET n == Len(wallet_info.trades)
    IN  IF n <= 1 THEN [points |-> 40, reasons |-> <<"new_wallet">>]
        ELSE IF n <= 5 THEN [points |-> 25, reasons |-> <<"very_recent_wallet">>]
        ELSE IF /\ wallet_info.first_trade_date.kind # "none"
                /\ DaysOld(now, wallet_info.first_trade_date) < NEW_WALLET_DAYS
             THEN [points |-> 20, reasons |-> <<"recent_wallet">>]
        ELSE [points |-> 0, reasons |-> <<>>]

\* Factor 2: large bet size (30 points)
SizeFactorOverweight(bet_size) ==
    IF bet_size > 50000 THEN [points |-> 40, reasons |-> <<"massive_bet">>]
    ELSE IF bet_size > 20000 THEN [points |-> 20, reasons |-> <<"big_bet">>]
    ELSE IF bet_size > 10000 THEN [points |-> 15, reasons |-> <<"significant_bet">>]
    ELSE [points |-> 10, reasons |-> <<"medium_bet">>]

SizeFactor(bet_size) ==
    IF bet_size > 50000 THEN [points |-> 30, reasons |-> <<"massive_bet">>]
    ELSE IF bet_size > 20000 THEN [points |-> 20, reasons |-> <<"big_bet">>]
    ELSE IF bet_size > 10000 THEN [points |-> 15, reasons |-> <<"significant_bet">>]
    ELSE [points |-> 10, reasons |-> <<"medium_bet">>]

\* Factor 3: single market focus (20 points)
UniqueMarkets(trades) == Cardinality({trades[i].market : i \in 1..Len(trades)})

FocusFactor(wallet_info) ==
    LET unique_markets == UniqueMarkets(wallet_info.trades)
    IN  IF unique_markets = 1 THEN [points |-> 20, reasons |-> <<"single_market">>]
        ELSE IF unique_markets <= 3 THEN [points |-> 10, reasons |-> <<"limited_focus">>]
        ELSE [points |-> 0, reasons |-> <<>>]

\* Factor 4: timing (10 points), from the first trade of the bet
TimingRaises(trades) == ParseRaises(trades[1].timestamp)

TimingFactor(trades) ==
    LET trade_hour == trades[1].timestamp.t % 24
    IN  IF (0 <= trade_hour /\ trade_hour <= 6) \/ (22 <= trade_hour /\ trade_hour <= 23)
        THEN [points |-> 10, reasons |-> <<"suspicious_hour">>]
        ELSE [points |-> 0, reasons |-> <<>>]

calculate_insider_score(wallet_info, bet_size, trades, now) ==
    IF NoveltyRaises(wallet_info) \/ TimingRaises(trades)
    THEN ScoreResult(TRUE, 0, 0, <<>>)
    ELSE LET f1 == NoveltyFactor(wallet_info, now)
             f2 == SizeFactor(bet_size)
             f3 == FocusFactor(wallet_info)
             f4 == TimingFactor(trades)
         IN  ScoreResult(FALSE,
                         f1.points + f2.points + f3.points + f4.points,
                         40 + 30 + 20 + 10,
                         f1.reasons \o f2.reasons \o f3.reasons \o f4.reasons)

\* lines 294-310 of analyze_trades, for one wallet that passed the size gate:
\* the score, and whether a signal is appended
Alertable(score) == score.probability > ALERT_PROBABILITY

ScoreWallet(wallet_info, bet_size, trades, now) ==
    LET score == calculate_insider_score(wallet_info, bet_size, trades, now)
    IN  [raised |-> score.raised, score |-> score,
         alert |-> ~score.raised /\ Alertable(score)]

\* ------------------------------------------------------------ analyze_trades

\* float(market.get('outcomes', [{}])[0].get('price', 0)): fine when the
\* market has no 'outcomes' or a list of dicts; raises when 'outcomes' is a
\* string (its first character has no .get) or an empty list
Market(condition_id, outcomes) == [condition_id |-> condition_id, outcomes |-> outcomes]
MarketRaises(market) == market.outcomes \in {"string", "empty"}

\* the size alone, the price forgotten
NotionalSizeOnly(trade) == trade.size.v

\* float(size) * float(price), the price in hundredths
Notional(trade) == (trade.size.v * trade.price.v) \div 100

NoBets == [raised |-> FALSE, order |-> <<>>,
           size |-> [w \in Wallets |-> 0], trades |-> [w \in Wallets |-> <<>>]]

\* the first loop, lines 270-280: wallet_bets in insertion order; a record
\* whose timestamp does not parse or is offset-aware raises, a record older
\* than an hour is skipped before its size and price are read
RECURSIVE GroupFrom(_, _, _, _)
GroupFrom(trades, i, now, acc) ==
    IF i > Len(trades) THEN acc
    ELSE LET trade == trades[i]
             wallet == trade.maker
         IN  IF ParseRaises(trade.timestamp) \/ NaiveOpRaises(trade.timestamp)
             THEN [acc EXCEPT !.raised = TRUE]
             ELSE IF trade.timestamp.t < now - 1
             THEN GroupFrom(trades, i + 1, now, acc)
             ELSE IF ~trade.size.ok \/ ~trade.price.ok
             THEN [acc EXCEPT !.raised = TRUE]
             ELSE GroupFrom(trades, i + 1, now,
                    [acc EXCEPT
                        !.order = IF acc.trades[wallet] = <<>>
                                  THEN Append(@, wallet) ELSE @,
                        !.size[wallet] = @ + Notional(trade),
                        !.trades[wallet] = Append(@, trade)])

GroupTrades(trades, now) == GroupFrom(trades, 1, now, NoBets)

\* a gate at half the floor
BelowHalfFloor(bet_size_usd) == bet_size_usd < MIN_BET_SIZE \div 2

\* line 287: the size gate
BelowFloor(bet_size_usd) == bet_size_usd < MIN_BET_SIZE

Signal(market, wallet, bet_size, trades, wallet_info, score) ==
    [market |-> market, wallet |-> wallet, bet_size |-> bet_size,
     trades |-> trades, wallet_info |-> wallet_info, score |-> score]

Lookup(wallet, bet_size, resp, r) ==
    [wallet |-> wallet, bet_size |-> bet_size, net |-> r.net,
     resp |-> resp.kind, raised |-> r.raised, profile |-> r.profile]

Scored(wallet, bet_size, score, alert) ==
    [wallet |-> wallet, bet_size |-> bet_size, score |-> score, alert |-> alert]

\* the second loop, lines 283-310, from the i-th wallet on. acc carries the
\* cache, the signals, and a record of the calls made: lookups (every call of
\* get_wallet_history) and scored (every score returned)
RECURSIVE AnalyzeFrom(_, _, _, _, _, _)
AnalyzeFrom(market, bets, i, now, resp, acc) ==
    IF i > Len(bets.order) THEN acc
    ELSE LET wallet == bets.order[i]
             bet_size_usd == bets.size[wallet]
         IN  IF BelowFloor(bet_size_usd)
             THEN AnalyzeFrom(market, bets, i + 1, now, resp, acc)
             ELSE LET r == get_wallet_history(acc.wallet_history, wallet, resp[wallet])
                      looked == [acc EXCEPT
                                    !.wallet_history = r.wallet_history,
                                    !.lookups = Append(@, Lookup(wallet, bet_size_usd,
                                                                 resp[wallet], r))]
                  IN  IF r.raised THEN [looked EXCEPT !.raised = TRUE]
                      ELSE LET sw == ScoreWallet(r.profile, bet_size_usd,
                                                 bets.trades[wallet], now)
                           IN  IF sw.raised THEN [looked EXCEPT !.raised = TRUE]
                               ELSE AnalyzeFrom(market, bets, i + 1, now, resp,
                                      [looked EXCEPT
                                         !.scored = Append(@, Scored(wallet, bet_size_usd,
                                                                    sw.score, sw.alert)),
                                         !.insider_signals =
                                            IF sw.alert
                                            THEN Append(@, Signal(market, wallet,
                                                    bet_size_usd, bets.trades[wallet],
                                                    r.profile, sw.score))
                                            ELSE @])

AnalyzeStart(cache) ==
    [raised |-> FALSE, wallet_history |-> cache, insider_signals |-> <<>>,
     lookups |-> <<>>, scored |-> <<>>]

\* analyze_trades: what it returns (insider_signals, nothing when it raised)
\* and the cache it leaves; resp is what the upstream would answer for each
\* wallet's history
analyze_trades(market, trades, cache, now, resp) ==
    IF MarketRaises(market) THEN [AnalyzeStart(cache) EXCEPT !.raised = TRUE]
    ELSE LET bets == GroupTrades(trades, now)
         IN  IF bets.raised THEN [AnalyzeStart(cache) EXCEPT !.raised = TRUE]
             ELSE LET out == AnalyzeFrom(market, bets, 1, now, resp, AnalyzeStart(cache))
                  IN  IF out.raised THEN [out EXCEPT !.insider_signals = <<>>]
                      ELSE out

\* ------------------------------------------------------------ inputs

\* a history of n records over m markets; the last record carries the first
\* trade's timestamp, the others a later one
MakeHistory(n, m, first, rest) ==
    [i \in 1..n |-> Hist(i % m, IF i = n THEN first ELSE rest)]

HistoryLengths == {1, 2, 5, 6, MaxHistory}
HistoryMarkets == {1, 3, 4, 40}
WalletAgeDays == {0, 89, 90, 400}
FirstTimestamps ==
    {Naive(StartHour - 24 * d) : d \in WalletAgeDays}
        \cup {Aware(StartHour - 24), TextTs}

HistoryShapes == {s \in HistoryLengths \X HistoryMarkets : s[2] <= s[1]}

Histories ==
    {<<>>} \cup
    {MakeHistory(s[1], s[2], f, IF f = TextTs THEN TextTs ELSE Naive(StartHour)) :
        s \in HistoryShapes, f \in FirstTimestamps}

Profiles == {Profile(h) : h \in Histories}

BetSizes == {1000, 1200, 10000, 10001, 20000, 20001, 50000, 50001}

\* ------------------------------------------------------------ state

VARIABLES
    \* the scoring of one bet: its inputs, and what lines 294-310 made of it
    sc_in, sc_out,
    \* one call of analyze_trades: its inputs, and what it did
    an_in, an_out,
    \* self.wallet_history, and datetime.now() in hours
    wallet_history, now,
    \* the last call of get_wallet_history, and per wallet the hour its entry
    \* was fetched and returned (-1: never)
    wh_last, wh_fetched, wh_first,
    \* get_active_markets: where its loop is, len(all_markets), offset
    mk_pc, all_markets_len, offset,
    \* check_insider_activity: waiting for the next run or in its loop, the
    \* markets of the run, the index of the next one
    pc, markets_to_scan, i,
    \* the keys of the trades an alert was delivered for, and what the last
    \* step of the loop did
    alerted, cy_last

scoreVars == <<sc_in, sc_out>>
analyzeVars == <<an_in, an_out>>
walletVars == <<wh_last, wh_fetched, wh_first>>
marketVars == <<mk_pc, all_markets_len, offset>>
cycleVars == <<pc, markets_to_scan, i, alerted, cy_last>>
vars == <<sc_in, sc_out, an_in, an_out, wallet_history, now, wh_last, wh_fetched, wh_first,
          mk_pc, all_markets_len, offset, pc, markets_to_scan, i, alerted, cy_last>>

\* sequences over S of length at most n
SeqsUpTo(S, n) == UNION {[1..k -> S] : k \in 0..n}

Established == MakeHistory(6, 4, Naive(StartHour - 24 * 400), Naive(StartHour))

\* ------------------------------------------------------------ scoring of one bet

ScoreInputs ==
    [wallet_info : Profiles, bet_size : BetSizes, now : StartHour..(StartHour + 23)]

BetTrades(in) == <<Trade("w1", Num(in.bet_size), Num(100), Naive(in.now))>>

ScorePending == [done |-> FALSE, raised |-> FALSE,
                 score |-> ScoreResult(TRUE, 0, 0, <<>>), alert |-> FALSE]

ScoreIdle ==
    /\ sc_in = [wallet_info |-> ZeroProfile, bet_size |-> MIN_BET_SIZE, now |-> StartHour]
    /\ sc_out = ScorePending

ScoreStep ==
    /\ ~sc_out.done
    /\ sc_out' = [done |-> TRUE] @@
                 ScoreWallet(sc_in.wallet_info, sc_in.bet_size, BetTrades(sc_in), sc_in.now)
    /\ UNCHANGED <<sc_in, analyzeVars, wallet_history, now, walletVars, marketVars,
                   cycleVars>>

\* ------------------------------------------------------------ one analyze_trades

\* the records a trade page is made of: bets of 600 and of 1200 by either
\* wallet, a record older than an hour, and malformed records
FeedTrades ==
    {Trade(w, Num(sz), Num(50), Naive(StartHour)) : w \in Wallets, sz \in {1200, 2400}}
      \cup {Trade("w1", Num(2400), Num(50), Naive(StartHour - 2)),
            Trade("w2", NotNum, Num(50), Naive(StartHour)),
            Trade("w1", Num(2400), NotNum, Naive(StartHour)),
            Trade("w1", Num(2400), Num(50), TextTs),
            Trade("w2", Num(2400), Num(50), AbsentTs),
            Trade("w2", Num(2400), Num(50), Aware(StartHour))}

AnalyzeHistories == {<<>>, Established, MakeHistory(2, 1, AbsentTs, Naive(StartHour))}

\* a wallet is either in the cache, or not and the upstream has an answer
WalletSources ==
    {<<[present |-> TRUE, trades |-> h], RespError>> : h \in AnalyzeHistories}
      \cup {<<NoEntry, r>> : r \in {RespError, RespStatus, RespBadJson}}
      \cup {<<NoEntry, RespOk(h)>> : h \in AnalyzeHistories}

\* a market without 'outcomes', and one whose 'outcomes' is a JSON string
AnalyzeMarkets == {Market("m1", "absent"), Market("m1", "string")}

AnalyzePending ==
    [done |-> FALSE] @@ AnalyzeStart(EmptyCache)

AnalyzeIdle ==
    /\ an_in = [market |-> Market("m1", "absent"), trades |-> <<>>,
                wallet_history |-> EmptyCache, now |-> StartHour,
                resp |-> [w \in Wallets |-> RespError]]
    /\ an_out = AnalyzePending

AnalyzeStep ==
    /\ ~an_out.done
    /\ an_out' = [done |-> TRUE] @@
                 analyze_trades(an_in.market, an_in.trades, an_in.wallet_history,
                                an_in.now, an_in.resp)
    /\ UNCHANGED <<an_in, scoreVars, wallet_history, now, walletVars, marketVars,
                   cycleVars>>

\* ------------------------------------------------------------ wallet cache

WalletHistories ==
    { <<>>,
      MakeHistory(1, 1, Naive(StartHour - 24), Naive(StartHour)),
      MakeHistory(6, 1, Naive(StartHour - 24), Naive(StartHour)),
      MakeHistory(2, 1, AbsentTs, Naive(StartHour)) }

WalletResponses ==
    {RespError, RespStatus, RespBadJson} \cup {RespOk(h) : h \in WalletHistories}

NoCall == [called |-> FALSE, wallet |-> "w1", resp |-> RespError, now |-> StartHour,
           had_entry |-> FALSE, fetched_at |-> -1,
           raised |-> FALSE, profile |-> ZeroProfile, net |-> FALSE]

\* what the call that stored a wallet's list returned to its caller
NoFirst == [set |-> FALSE, profile |-> ZeroProfile]

ProgramStart ==
    /\ wallet_history = EmptyCache
    /\ now = StartHour

WalletIdle ==
    /\ wh_last = NoCall
    /\ wh_fetched = [w \in Wallets |-> -1]
    /\ wh_first = [w \in Wallets |-> NoFirst]

\* one call of get_wallet_history; resp is what the upstream would answer
WalletCall(wallet, resp) ==
    LET r == get_wallet_history(wallet_history, wallet, resp)
    IN  /\ wallet_history' = r.wallet_history
        /\ wh_last' = [called |-> TRUE, wallet |-> wallet, resp |-> resp, now |-> now,
                       had_entry |-> wallet_history[wallet].present,
                       fetched_at |-> wh_fetched[wallet],
                       raised |-> r.raised, profile |-> r.profile, net |-> r.net]
        /\ wh_fetched' = IF r.net /\ resp.kind = "ok" /\ r.profile = Profile(resp.trades)
                         THEN [wh_fetched EXCEPT ![wallet] = now]
                         ELSE wh_fetched
        /\ wh_first' = IF ~wallet_history[wallet].present /\ r.wallet_history[wallet].present
                       THEN [wh_first EXCEPT ![wallet] = [set |-> TRUE, profile |-> r.profile]]
                       ELSE wh_first
        /\ UNCHANGED <<now, scoreVars, analyzeVars, marketVars, cycleVars>>

\* the wall clock advances
Tick ==
    /\ now < StartHour + MaxTick
    /\ now' = now + 1
    /\ UNCHANGED <<wallet_history, walletVars, scoreVars, analyzeVars, marketVars,
                   cycleVars>>

\* ------------------------------------------------------------ market pagination

\* what one GET /markets gives: the request or its JSON decoding raises, a
\* status other than 200, or a 200 with a page of n markets
PageSizes == {0, limit \div 2, limit - 1, limit, limit + MaxOverfill}
PageResponses ==
    {[kind |-> "error", n |-> 0], [kind |-> "status", n |-> 0]}
        \cup {[kind |-> "ok", n |-> n] : n \in PageSizes}

MarketsIdle ==
    /\ mk_pc = "request"
    /\ all_markets_len = 0
    /\ offset = 0

\* one pass of the while loop up to its sleep
MarketsPage(resp) ==
    /\ mk_pc = "request"
    /\ IF resp.kind = "ok" /\ resp.n > 0
       THEN /\ all_markets_len' = all_markets_len + resp.n
            /\ offset' = offset + limit
            /\ mk_pc' = IF all_markets_len' >= SAFETY_LIMIT THEN "done" ELSE "sleep"
       ELSE /\ mk_pc' = "done"
            /\ UNCHANGED <<all_markets_len, offset>>
    /\ UNCHANGED <<scoreVars, analyzeVars, wallet_history, now, walletVars, cycleVars>>

\* await asyncio.sleep(0.5), then the next pass
MarketsSleep ==
    /\ mk_pc = "sleep"
    /\ mk_pc' = "request"
    /\ UNCHANGED <<all_markets_len, offset, scoreVars, analyzeVars, wallet_history,
                   now, walletVars, cycleVars>>

\* ------------------------------------------------------------ the feeds of a cycle

\* the markets get_active_markets returns: with a condition_id or without
CycleMarkets == {Market("m1", "absent"), Market("m2", "absent"), Market("", "absent")}

\* no two markets of a list share a condition_id
MarketLists ==
    {ms \in SeqsUpTo(CycleMarkets, MaxMarkets) :
        \A j, k \in 1..Len(ms) :
            (j # k /\ ms[j].condition_id # "") => ms[j].condition_id # ms[k].condition_id}

CycleTrades ==
    {Trade("w1", Num(2400), Num(50), Naive(StartHour)),
     Trade("w2", Num(2400), Num(50), Naive(StartHour)),
     Trade("w2", NotNum, Num(50), Naive(StartHour))}

\* what GET /trades?market=... gives
TradeResponses ==
    {[kind |-> "error", trades |-> <<>>], [kind |-> "status", trades |-> <<>>]}
        \cup {[kind |-> "ok", trades |-> page] : page \in SeqsUpTo(CycleTrades, MaxTrades)}

CycleWalletResponses == {RespError, RespOk(<<>>)}

\* get_recent_trades: the page on a 200, [] otherwise
get_recent_trades(resp) == IF resp.kind = "ok" THEN resp.trades ELSE <<>>

\* ------------------------------------------------------------ notions of the spec

\* the identity of a trade: wallet, market, timestamp
TradeKey(market_id, trade) == <<trade.maker, market_id, trade.timestamp>>

\* a malformed record: non-numeric size or price, missing or unparseable
\* timestamp
Malformed(trade) ==
    ParseRaises(trade.timestamp) \/ ~trade.size.ok \/ ~trade.price.ok

\* a trade's own notional value, size x price
TradeValue(trade) == (trade.size.v * trade.price.v) \div 100

\* the notional value of the well-formed trades a wallet made in the last
\* hour, among the first n of a page
RECURSIVE RecentValueUpTo(_, _, _, _)
RecentValueUpTo(wallet, trades, hour, n) ==
    IF n = 0 THEN 0
    ELSE RecentValueUpTo(wallet, trades, hour, n - 1) +
         (IF /\ trades[n].maker = wallet
             /\ ~Malformed(trades[n])
             /\ trades[n].timestamp.t >= hour - 1
          THEN TradeValue(trades[n]) ELSE 0)

RecentValue(wallet, trades, hour) == RecentValueUpTo(wallet, trades, hour, Len(trades))

\* the wallets whose well-formed trades of the last hour reach the floor
SignificantWallets(trades, hour) ==
    {w \in Wallets : RecentValue(w, trades, hour) >= MIN_BET_SIZE}

\* ------------------------------------------------------------ the polling cycle

NoStep == [kind |-> "none", malformed |-> FALSE, raised |-> FALSE,
           others_scored |-> TRUE, left |-> 0, realerted |-> {}]

CycleIdle ==
    /\ pc = "idle"
    /\ markets_to_scan = <<>>
    /\ i = 1
    /\ alerted = {}
    /\ cy_last = NoStep

\* a run starts: lines 134-146, markets being what get_active_markets returned
CycleStart(markets) ==
    /\ pc = "idle"
    /\ pc' = "scan"
    /\ markets_to_scan' = markets
    /\ i' = 1
    /\ cy_last' = [NoStep EXCEPT !.kind = "start"]
    /\ UNCHANGED <<alerted, wallet_history, now, walletVars, scoreVars, analyzeVars,
                   marketVars>>

\* lines 148-150: a market without condition_id is passed over
CycleSkip ==
    /\ pc = "scan" /\ i <= Len(markets_to_scan)
    /\ markets_to_scan[i].condition_id = ""
    /\ i' = i + 1
    /\ cy_last' = [NoStep EXCEPT !.kind = "skip"]
    /\ UNCHANGED <<pc, markets_to_scan, alerted, wallet_history, now, walletVars,
                   scoreVars, analyzeVars, marketVars>>

\* send_insider_alert over the signals of a market: the keys of the trades
\* of the signals whose alert was delivered
DeliveredKeys(market_id, signals, delivered) ==
    UNION {{TradeKey(market_id, signals[j].trades[k]) : k \in 1..Len(signals[j].trades)} :
               j \in {j \in 1..Len(signals) : delivered[j]}}


\* lines 156-166 for one market: the trades are fetched and analyzed, and an
\* alert is sent per signal (delivered[j]: the channel is found and its send
\* does not raise). An exception of analyze_trades leaves the loop for the
\* handler of line 170, which ends the run
CycleScan(tresp, resp) ==
    /\ pc = "scan" /\ i <= Len(markets_to_scan)
    /\ markets_to_scan[i].condition_id # ""
    /\ LET market == markets_to_scan[i]
           trades == get_recent_trades(tresp)
           out == analyze_trades(market, trades, wallet_history, now, resp)
       IN  /\ wallet_history' = out.wallet_history
           /\ \E delivered \in [1..Len(out.insider_signals) -> BOOLEAN] :
                LET keys == DeliveredKeys(market.condition_id, out.insider_signals,
                                          delivered)
                IN  /\ alerted' = alerted \cup keys
                    /\ cy_last' =
                         [kind |-> "scan",
                          malformed |-> \E k \in 1..Len(trades) : Malformed(trades[k]),
                          raised |-> out.raised,
                          others_scored |->
                              SignificantWallets(trades, now) \subseteq
                                  {out.scored[k].wallet : k \in 1..Len(out.scored)},
                          left |-> IF out.raised THEN Len(markets_to_scan) - i ELSE 0,
                          realerted |-> keys \cap alerted]
           /\ IF out.raised
              THEN pc' = "idle" /\ i' = i
              ELSE pc' = pc /\ i' = i + 1
    /\ UNCHANGED <<markets_to_scan, now, walletVars, scoreVars, analyzeVars, marketVars>>

\* line 168: the loop is over
CycleEnd ==
    /\ pc = "scan" /\ i > Len(markets_to_scan)
    /\ pc' = "idle"
    /\ cy_last' = [NoStep EXCEPT !.kind = "end"]
    /\ UNCHANGED <<markets_to_scan, i, alerted, wallet_history, now, walletVars,
                   scoreVars, analyzeVars, marketVars>>

\* ------------------------------------------------------------ specifications

Init ==
    /\ ProgramStart /\ CycleIdle
    /\ ScoreIdle /\ AnalyzeIdle /\ WalletIdle /\ MarketsIdle

Next ==
    \/ \E markets \in MarketLists : CycleStart(markets)
    \/ CycleSkip
    \/ \E tresp \in TradeResponses, resp \in [Wallets -> CycleWalletResponses] :
          CycleScan(tresp, resp)
    \/ CycleEnd
    \/ Tick

Spec == Init /\ [][Next]_vars

ScoreInit ==
    /\ sc_in \in ScoreInputs
    /\ sc_out = ScorePending
    /\ ProgramStart /\ CycleIdle /\ AnalyzeIdle /\ WalletIdle /\ MarketsIdle

ScoreNext == ScoreStep

SpecScore == ScoreInit /\ [][ScoreNext]_vars

AnalyzeInit ==
    /\ \E market \in AnalyzeMarkets, trades \in SeqsUpTo(FeedTrades, MaxTrades),
          src \in [Wallets -> WalletSources], hour \in {StartHour, StartHour + 1} :
            an_in = [market |-> market, trades |-> trades,
                     wallet_history |-> [w \in Wallets |-> src[w][1]],
                     now |-> hour,
                     resp |-> [w \in Wallets |-> src[w][2]]]
    /\ an_out = AnalyzePending
    /\ ProgramStart /\ CycleIdle /\ ScoreIdle /\ WalletIdle /\ MarketsIdle

AnalyzeNext == AnalyzeStep

SpecAnalyze == AnalyzeInit /\ [][AnalyzeNext]_vars

WalletInit ==
    /\ ProgramStart /\ CycleIdle
    /\ ScoreIdle /\ AnalyzeIdle /\ WalletIdle /\ MarketsIdle

WalletNext ==
    \/ \E w \in Wallets, resp \in WalletResponses : WalletCall(w, resp)
    \/ Tick

SpecWallet == WalletInit /\ [][WalletNext]_vars

MarketsInit ==
    /\ ProgramStart /\ CycleIdle
    /\ ScoreIdle /\ AnalyzeIdle /\ WalletIdle /\ MarketsIdle

MarketsNext ==
    \/ \E resp \in PageResponses : MarketsPage(resp)
    \/ MarketsSleep

SpecMarkets == MarketsInit /\ [][MarketsNext]_vars

\* ------------------------------------------------------------ claims

ScoredWallets == {an_out.scored[k].wallet : k \in 1..Len(an_out.scored)}
SignalWallets == {an_out.insider_signals[k].wallet : k \in 1..Len(an_out.insider_signals)}
LookupWallets == {an_out.lookups[k].wallet : k \in 1..Len(an_out.lookups)}
PageValue(w) == RecentValue(w, an_in.trades, an_in.now)

\* C1: a trade (wallet, market, timestamp) an alert was delivered for is
\* never alerted again by a later run
C1_NoRealert ==
    cy_last.kind = "scan" => cy_last.realerted = {}

\* C2: a page with a malformed record does not abort the run: the analysis
\* does not raise, the wallets of the other records are scored, and no
\* market of the run is left unscanned
C2_MalformedRecordSkipped ==
    (cy_last.kind = "scan" /\ cy_last.malformed) =>
        /\ ~cy_last.raised
        /\ cy_last.others_scored
        /\ cy_last.left = 0

C4_AlertAtAnnouncedMinimum ==
    (an_out.done /\ ~an_out.raised) =>
        \A k \in 1..Len(an_out.scored) :
            an_out.scored[k].wallet \in SignalWallets <=>
                /\ an_out.scored[k].score.probability >= ANNOUNCED_MIN_PROBABILITY
                /\ an_out.scored[k].score.reasons # <<>>

\* C5: a failed wallet-history request (exception, undecodable body, status
\* other than 200) does not raise and gives the zero profile, which the score
\* counts as a new wallet, 40 points
C5_FailOpen ==
    an_out.done =>
        \A k \in 1..Len(an_out.lookups) :
            LET l == an_out.lookups[k]
            IN  (l.net /\ l.resp \in {"error", "status", "badjson"}) =>
                    /\ ~l.raised
                    /\ l.profile = ZeroProfile
                    /\ NoveltyFactor(l.profile, an_in.now).points = 40
                    /\ \E j \in 1..Len(an_out.scored) :
                          /\ an_out.scored[j].wallet = l.wallet
                          /\ an_out.scored[j].score.reasons[1] = "new_wallet"
                          /\ an_out.scored[j].score.score >= 40

\* a request that raised, made for a wallet that passed the gate
C5_Witness ==
    /\ an_out.done
    /\ \E k \in 1..Len(an_out.lookups) :
          an_out.lookups[k].net /\ an_out.lookups[k].resp = "error"

\* C6: get_wallet_history is called only for a wallet whose aggregated bet
\* reached MIN_BET_SIZE; a rejected wallet gets no call and its cache entry
\* is left as it was
C6_LookupAfterGate ==
    an_out.done =>
        /\ \A k \in 1..Len(an_out.lookups) :
              /\ an_out.lookups[k].bet_size >= MIN_BET_SIZE
              /\ an_out.lookups[k].bet_size = PageValue(an_out.lookups[k].wallet)
        /\ \A w \in Wallets :
              PageValue(w) < MIN_BET_SIZE =>
                  /\ w \notin LookupWallets
                  /\ an_out.wallet_history[w] = an_in.wallet_history[w]

\* a request made for one wallet while the other wallet was rejected
C6_Witness ==
    /\ an_out.done
    /\ \E k \in 1..Len(an_out.lookups) : an_out.lookups[k].net
    /\ \E w \in Wallets :
          /\ 0 < PageValue(w) /\ PageValue(w) < MIN_BET_SIZE
          /\ w \notin LookupWallets

\* C9: every probability calculate_insider_score returns is in 0..100, the
\* score never exceeds max_score, and max_score is 100
C9_ProbabilityInRange ==
    (sc_out.done /\ ~sc_out.raised) =>
        /\ sc_out.score.probability \in 0..100
        /\ sc_out.score.score <= sc_out.score.max_score
        /\ sc_out.score.max_score = 100

\* a bet scoring every factor at its maximum
C9_Witness ==
    /\ sc_out.done /\ ~sc_out.raised
    /\ sc_out.score.probability = 100

\* C7: scenario B (bet of 1200, wallet of 200 trades over 40 markets) gets
\* confidence 0, no signal and no alert, whatever the hour and the wallet age
ScenarioB ==
    /\ sc_in.bet_size = 1200
    /\ Len(sc_in.wallet_info.trades) = MaxHistory
    /\ UniqueMarkets(sc_in.wallet_info.trades) = 40
    /\ sc_in.wallet_info.first_trade_date.kind = "naive"

C7_ScenarioB ==
    (sc_out.done /\ ScenarioB) =>
        /\ ~sc_out.raised
        /\ sc_out.score.probability = 0
        /\ sc_out.score.reasons = <<>>
        /\ ~sc_out.alert

\* C8: once a wallet's history was fetched and returned, a later call within
\* the freshness window is served from the cache without a request, and a
\* call after the window has expired fetches again
C8_CacheFreshness ==
    (wh_last.called /\ wh_last.fetched_at >= 0) =>
        IF wh_last.now - wh_last.fetched_at <= FreshnessWindow
        THEN ~wh_last.net /\ ~wh_last.raised
                /\ wh_last.profile = Profile(wallet_history[wh_last.wallet].trades)
        ELSE wh_last.net

\* C11: a call of get_wallet_history for a wallet whose list is already stored
\* returns without raising, and returns the trades and first_trade_date that
\* the call which stored the list returned
C11_CachedCallConsistent ==
    (wh_last.called /\ wh_last.had_entry) =>
        /\ ~wh_last.raised
        /\ wh_first[wh_last.wallet].set
        /\ wh_last.profile = wh_first[wh_last.wallet].profile

\* C10: the list get_active_markets returns holds at most 1000 markets
C10_AtMostSafetyLimit ==
    mk_pc = "done" => all_markets_len <= SAFETY_LIMIT
====
